---- MODULE Spec2Model ----
(***************************************************************************)
(* Model of scaredy-shroom: the digital timing-wave generator              *)
(* (timing_utility.generate_timing_wave) and the hardware sequencing of    *)
(* the main_experiment script.                                             *)
(*                                                                         *)
(* Real numbers (durations, sample rates) are exact rationals <<n, d>>     *)
(* with d > 0.  Every value used is a dyadic rational, so the Python float *)
(* product t[1] * sample_rate is exact and the model's arithmetic is the   *)
(* program's arithmetic.                                                   *)
(*                                                                         *)
(* NumPy is modelled with the semantics of the NumPy 1.x line the code is  *)
(* written against (np.row_stack): np.full casts its fill value to the     *)
(* element type with C wrap-around, np.full raises on a negative length,   *)
(* np.concatenate and np.row_stack raise on an empty list.                 *)
(***************************************************************************)
EXTENDS Integers, Sequences, FiniteSets

VARIABLES
    timing_sequence_list,   \* the caller's list of (bitmask, duration) runs
    sample_rate,            \* generate_timing_wave's sample_rate argument
    bit_num,                \* generate_timing_wave's bit_num argument
    n_channel,              \* generate_timing_wave's n_channel argument
    dtype,                  \* element width (bits) of the returned array, 0 before a return
    timing_wave,            \* the returned array (flat, or a sequence of rows)
    pc,                     \* position of the caller / of the script
    repeat_time,            \* main_experiment: number of sampling iterations
    idx,                    \* main_experiment: loop variable
    timing_task,            \* main_experiment: state of the digital output task
    sample_task,            \* main_experiment: state of the analog input task
    written,                \* main_experiment: last buffer written to the timing task
    data,                   \* main_experiment: last buffer read from the sample task
    calls                   \* main_experiment: the hardware calls made so far, in order

vars == <<timing_sequence_list, sample_rate, bit_num, n_channel, dtype, timing_wave,
          pc, repeat_time, idx, timing_task, sample_task, written, data, calls>>

genArgs == <<timing_sequence_list, sample_rate, bit_num, n_channel>>

scriptVars == <<repeat_time, idx, timing_task, sample_task, written, data, calls>>

-----------------------------------------------------------------------------
(* Bounds and input sets *)

MaxRuns == 3

MaxRepeat == 3

\* (bitmask, duration) runs the caller may use: the docstring example, the
\* script's configuration, a bitmask wider than 16 bits, and a negative
\* duration (a zero sample rate stands for what a zero duration would do).
LevelRuns ==
    { <<2, <<3, 1>>>>, <<1, <<2, 1>>>>, <<2, <<4, 1>>>>,
      <<65280, <<1, 1>>>>, <<255, <<1, 1>>>>,
      <<130818, <<1, 1>>>>,
      <<1, <<-1, 1>>>> }

SampleRates == { <<0, 1>>, <<1, 4>>, <<1, 1>>, <<3, 2>> }

BitNums == {4, 8, 16}

NChannels == {1, 2, 3}

RunLists == UNION { [1..n -> LevelRuns] : n \in 0..MaxRuns }

\* Configurations of the script: its own list, the docstring example, an
\* empty list (the generator raises and the script stops at once).
ScriptLists ==
    { << <<65280, <<1, 1>>>>, <<255, <<1, 1>>>>, <<65280, <<1, 1>>>> >>,
      << <<2, <<3, 1>>>>, <<1, <<2, 1>>>>, <<2, <<4, 1>>>> >>,
      << >> }

ScriptRates == { <<1, 1>>, <<3, 2>> }

\* Values the analog input may deliver.
Readings == {0, 1}

-----------------------------------------------------------------------------
(* Arithmetic *)

Abs(x) == IF x < 0 THEN -x ELSE x

RECURSIVE Pow2(_)
Pow2(n) == IF n <= 0 THEN 1 ELSE 2 * Pow2(n - 1)

\* value >> count on an unbounded Python int: count halvings.
RECURSIVE ShiftRight(_, _)
ShiftRight(value, count) ==
    IF count <= 0 \/ value = 0 THEN value
    ELSE ShiftRight(value \div 2, count - 1)

\* t[1] * sample_rate
Mul(a, b) == <<a[1] * b[1], a[2] * b[2]>>

\* C round(): to nearest, halves away from zero.
RoundHalfAway(x) ==
    IF x[1] >= 0
    THEN (2 * x[1] + x[2]) \div (2 * x[2])
    ELSE -((2 * (-x[1]) + x[2]) \div (2 * x[2]))

\* Variant of Round: an exact half goes upward.
RoundHalfUp(x) == (2 * x[1] + x[2]) \div (2 * x[2])

\* Python's round(x) of a float: C round(), and on an exact half the even
\* neighbour, 2 * round(x / 2).
Round(x) ==
    LET rounded == RoundHalfAway(x)
    IN  IF 2 * Abs(x[1] - rounded * x[2]) = x[2]
        THEN 2 * RoundHalfAway(<<x[1], 2 * x[2]>>)
        ELSE rounded

-----------------------------------------------------------------------------
(* NumPy *)

\* Variant of AsType: a value too wide is clipped to the largest element.
AsTypeSaturate(value, width) ==
    IF value >= Pow2(width) THEN Pow2(width) - 1 ELSE value

\* The cast of a fill value to uint8 / uint16: wrap-around.
AsType(value, width) == value % Pow2(width)

\* np.full(count, value, dtype=dtype), for count >= 0.
np_full(count, value, width) ==
    LET fill_value == AsType(value, width)
    IN  [i \in 1..count |-> fill_value]

RECURSIVE np_concatenate(_)
np_concatenate(arrays) ==
    IF arrays = << >> THEN << >>
    ELSE Head(arrays) \o np_concatenate(Tail(arrays))

-----------------------------------------------------------------------------
(* timing_utility.generate_timing_wave *)

\* Variant of Dtype: the threshold one bit lower.
DtypeOffByOne(bits) == IF bits < 8 THEN 8 ELSE 16

\* dtype = np.uint8 if bit_num < 9 else np.uint16
Dtype(bits) == IF bits < 9 THEN 8 ELSE 16

\* Sum of the durations of runs 1..i.
RECURSIVE CumulativeDuration(_, _)
CumulativeDuration(list, i) ==
    IF i = 0 THEN <<0, 1>>
    ELSE LET c == CumulativeDuration(list, i - 1)
             d == list[i][2]
         IN  <<c[1] * d[2] + d[1] * c[2], c[2] * d[2]>>

\* Variant of Counts: the cumulative duration is rounded, not each run.
CountsCumulative(list, rate) ==
    [i \in 1..Len(list) |->
        Round(Mul(CumulativeDuration(list, i), rate))
        - Round(Mul(CumulativeDuration(list, i - 1), rate))]

\* round(t[1] * sample_rate) for t in timing_sequence_list
Counts(list, rate) == [i \in 1..Len(list) |-> Round(Mul(list[i][2], rate))]

\* (t[0] >> bit_num*idx) & 0xFF
LaneValue(bitmask, bits, lane) == ShiftRight(bitmask, bits * lane) % 256

\* Variant of range: the upper end included.
rangeInclusive(n) == 0..n

\* range(n_channel)
range(n) == 0..(n - 1)

Raised == [raised |-> TRUE, dtype |-> 0, wave |-> << >>]

\* np.concatenate([np.full(round(t[1] * sample_rate), value(t), dtype=dtype)
\*                 for t in timing_sequence_list])
\* values[i] is the fill value of run i.  np.full raises ValueError on a
\* negative count, np.concatenate raises ValueError on an empty list.
ChannelWave(list, rate, values, width) ==
    LET counts == Counts(list, rate)
    IN  IF \E i \in 1..Len(list) : counts[i] < 0 THEN Raised
        ELSE IF Len(list) = 0 THEN Raised
        ELSE [raised |-> FALSE, dtype |-> width,
              wave |-> np_concatenate(
                  [i \in 1..Len(list) |-> np_full(counts[i], values[i], width)])]

generate_timing_wave(list, rate, bits, channels) ==
    LET width == Dtype(bits)
    IN  IF channels = 1
        THEN ChannelWave(list, rate, [i \in 1..Len(list) |-> list[i][1]], width)
        ELSE LET lanes == range(channels)
                 timing_wave_list ==
                     [lane \in lanes |->
                         ChannelWave(list, rate,
                             [i \in 1..Len(list) |-> LaneValue(list[i][1], bits, lane)],
                             width)]
             IN  IF \E lane \in lanes : timing_wave_list[lane].raised THEN Raised
                 ELSE IF lanes = {} THEN Raised
                 ELSE [raised |-> FALSE, dtype |-> width,
                       wave |-> [r \in 1..Cardinality(lanes) |->
                                    timing_wave_list[r - 1].wave]]

-----------------------------------------------------------------------------
(* A caller invoking generate_timing_wave once on the arguments it holds *)

Init ==
    /\ timing_sequence_list \in RunLists
    /\ sample_rate \in SampleRates
    /\ bit_num \in BitNums
    /\ n_channel \in NChannels
    /\ dtype = 0
    /\ timing_wave = << >>
    /\ pc = "call"
    /\ repeat_time = 0
    /\ idx = 0
    /\ timing_task = "none"
    /\ sample_task = "none"
    /\ written = << >>
    /\ data = << >>
    /\ calls = << >>

CallReturns ==
    /\ pc = "call"
    /\ LET r == generate_timing_wave(timing_sequence_list, sample_rate, bit_num, n_channel)
       IN  /\ ~r.raised
           /\ timing_wave' = r.wave
           /\ dtype' = r.dtype
    /\ pc' = "returned"
    /\ UNCHANGED <<genArgs, scriptVars>>

CallRaises ==
    /\ pc = "call"
    /\ generate_timing_wave(timing_sequence_list, sample_rate, bit_num, n_channel).raised
    /\ pc' = "raised"
    /\ UNCHANGED <<genArgs, dtype, timing_wave, scriptVars>>

Next == CallReturns \/ CallRaises

Spec == Init /\ [][Next]_vars

-----------------------------------------------------------------------------
(* main_experiment: the script, one action per statement that touches the   *)
(* generator or a device task.  Every driver call may raise, which ends the *)
(* script where it stands.                                                  *)

timing_channel == <<"/cDAQ9189-1EFE359Mod3/port0", "/cDAQ9189-1EFE359Mod4/port0">>

InitMain ==
    /\ timing_sequence_list \in ScriptLists
    /\ sample_rate \in ScriptRates
    /\ bit_num = 8
    /\ n_channel = 2
    /\ dtype = 0
    /\ timing_wave = << >>
    /\ pc = "generate"
    /\ repeat_time \in 0..MaxRepeat
    /\ idx = 0
    /\ timing_task = "none"
    /\ sample_task = "none"
    /\ written = << >>
    /\ data = << >>
    /\ calls = << >>

\* timing_wave = timing_utility.generate_timing_wave(
\*     timing_sequence_list, timing_rate, n_channel=2)
GenerateWave ==
    /\ pc = "generate"
    /\ LET r == generate_timing_wave(timing_sequence_list, sample_rate, bit_num, n_channel)
       IN  \/ /\ ~r.raised
              /\ timing_wave' = r.wave
              /\ dtype' = r.dtype
              /\ pc' = "cfg_DO_task"
           \/ /\ r.raised
              /\ pc' = "aborted"
              /\ UNCHANGED <<timing_wave, dtype>>
    /\ UNCHANGED <<genArgs, scriptVars>>

\* timing_task = ni_devices_utilities.cfg_DO_task(...)
CfgDOTask ==
    /\ pc = "cfg_DO_task"
    /\ timing_task' = "created"
    /\ calls' = Append(calls, <<"timing_task", "create">>)
    /\ pc' = "write_digital_data"
    /\ UNCHANGED <<genArgs, dtype, timing_wave, repeat_time, idx, sample_task, written, data>>

\* ni_devices_utilities.write_digital_data(timing_task, timing_wave)
WriteDigitalData ==
    /\ pc = "write_digital_data"
    /\ written' = timing_wave
    /\ calls' = Append(calls, <<"timing_task", "write_wave">>)
    /\ pc' = "cfg_AI_task"
    /\ UNCHANGED <<genArgs, dtype, timing_wave, repeat_time, idx, timing_task, sample_task, data>>

\* sample_task, data_buffer = ni_devices_utilities.cfg_AI_task(...)
CfgAITask ==
    /\ pc = "cfg_AI_task"
    /\ sample_task' = "created"
    /\ calls' = Append(calls, <<"sample_task", "create">>)
    /\ pc' = "timing_start"
    /\ UNCHANGED <<genArgs, dtype, timing_wave, repeat_time, idx, timing_task, written, data>>

\* timing_task.start()
TimingStart ==
    /\ pc = "timing_start"
    /\ timing_task' = "started"
    /\ calls' = Append(calls, <<"timing_task", "start">>)
    /\ pc' = "for"
    /\ UNCHANGED <<genArgs, dtype, timing_wave, repeat_time, idx, sample_task, written, data>>

\* for idx in range(1, repeat_time+1):
ForLoop ==
    /\ pc = "for"
    /\ \/ /\ idx < repeat_time
          /\ idx' = idx + 1
          /\ pc' = "sample_start"
       \/ /\ idx >= repeat_time
          /\ pc' = "sample_close"
          /\ UNCHANGED idx
    /\ UNCHANGED <<genArgs, dtype, timing_wave, repeat_time, timing_task, sample_task,
                   written, data, calls>>

\* sample_task.start()
SampleStart ==
    /\ pc = "sample_start"
    /\ sample_task' = "started"
    /\ calls' = Append(calls, <<"sample_task", "start">>)
    /\ pc' = "read_data"
    /\ UNCHANGED <<genArgs, dtype, timing_wave, repeat_time, idx, timing_task, written, data>>

\* data = ni_devices_utilities.read_data(sample_task, data_buffer)
ReadData ==
    /\ pc = "read_data"
    /\ \E v \in Readings : data' = <<v>>
    /\ calls' = Append(calls, <<"sample_task", "read">>)
    /\ pc' = "sample_stop"
    /\ UNCHANGED <<genArgs, dtype, timing_wave, repeat_time, idx, timing_task, sample_task,
                   written>>

\* Variant of SampleStop: the iteration goes on without stopping the task.
SampleStopSkipped ==
    /\ pc = "sample_stop"
    /\ pc' = "save"
    /\ UNCHANGED <<genArgs, dtype, timing_wave, repeat_time, idx, timing_task, sample_task,
                   written, data, calls>>

\* sample_task.stop()
SampleStop ==
    /\ pc = "sample_stop"
    /\ sample_task' = "stopped"
    /\ calls' = Append(calls, <<"sample_task", "stop">>)
    /\ pc' = "save"
    /\ UNCHANGED <<genArgs, dtype, timing_wave, repeat_time, idx, timing_task, written, data>>

\* data_length = int(data.size/sample_task.number_of_channels); np.savetxt(...)
SaveData ==
    /\ pc = "save"
    /\ calls' = Append(calls, <<"sample_task", "number_of_channels">>)
    /\ pc' = "for"
    /\ UNCHANGED <<genArgs, dtype, timing_wave, repeat_time, idx, timing_task, sample_task,
                   written, data>>

\* sample_task.close()
SampleClose ==
    /\ pc = "sample_close"
    /\ sample_task' = "closed"
    /\ calls' = Append(calls, <<"sample_task", "close">>)
    /\ pc' = "write_zero"
    /\ UNCHANGED <<genArgs, dtype, timing_wave, repeat_time, idx, timing_task, written, data>>

\* number_of_channels = len(timing_channel) if isinstance(timing_channel, list) else 1
\* timing_task.write([0]*number_of_channels, auto_start=True)
WriteZero ==
    /\ pc = "write_zero"
    /\ written' = [c \in 1..Len(timing_channel) |-> 0]
    /\ timing_task' = "started"
    /\ calls' = Append(calls, <<"timing_task", "write_zero">>)
    /\ pc' = "timing_stop"
    /\ UNCHANGED <<genArgs, dtype, timing_wave, repeat_time, idx, sample_task, data>>

\* timing_task.stop()
TimingStop ==
    /\ pc = "timing_stop"
    /\ timing_task' = "stopped"
    /\ calls' = Append(calls, <<"timing_task", "stop">>)
    /\ pc' = "timing_close"
    /\ UNCHANGED <<genArgs, dtype, timing_wave, repeat_time, idx, sample_task, written, data>>

\* timing_task.close()
TimingClose ==
    /\ pc = "timing_close"
    /\ timing_task' = "closed"
    /\ calls' = Append(calls, <<"timing_task", "close">>)
    /\ pc' = "done"
    /\ UNCHANGED <<genArgs, dtype, timing_wave, repeat_time, idx, sample_task, written, data>>

DriverSteps ==
    { "cfg_DO_task", "write_digital_data", "cfg_AI_task", "timing_start", "sample_start",
      "read_data", "sample_stop", "save", "sample_close", "write_zero", "timing_stop",
      "timing_close" }

\* A driver call (or the file write) raises: the script ends with a traceback.
DriverRaises ==
    /\ pc \in DriverSteps
    /\ pc' = "aborted"
    /\ UNCHANGED <<genArgs, dtype, timing_wave, scriptVars>>

NextMain ==
    \/ GenerateWave
    \/ CfgDOTask
    \/ WriteDigitalData
    \/ CfgAITask
    \/ TimingStart
    \/ ForLoop
    \/ SampleStart
    \/ ReadData
    \/ SampleStop
    \/ SaveData
    \/ SampleClose
    \/ WriteZero
    \/ TimingStop
    \/ TimingClose
    \/ DriverRaises

SpecMain == InitMain /\ [][NextMain]_vars

-----------------------------------------------------------------------------
(* Vocabulary of the properties, stated independently of the model above *)

Finished == pc \in {"returned", "raised"}

\* The integer nearest to the rational x, an exact half going to the even one.
NearestEven(x) ==
    CHOOSE n \in (x[1] \div x[2])..((x[1] \div x[2]) + 1) :
        \/ 2 * Abs(x[1] - n * x[2]) < x[2]
        \/ 2 * Abs(x[1] - n * x[2]) = x[2] /\ n % 2 = 0

\* duration_i * sample_rate of the call in the state
Product(i) ==
    <<timing_sequence_list[i][2][1] * sample_rate[1],
      timing_sequence_list[i][2][2] * sample_rate[2]>>

ExpectedCount(i) == NearestEven(Product(i))

RECURSIVE ExpectedOffset(_)
\* Samples of the runs before run i + 1
ExpectedOffset(i) == IF i = 0 THEN 0 ELSE ExpectedOffset(i - 1) + ExpectedCount(i)

ExpectedLength == ExpectedOffset(Len(timing_sequence_list))

\* wave is the runs' segments in input order, segment i holding value(i) throughout
SegmentsAre(wave, value(_)) ==
    /\ Len(wave) = ExpectedLength
    /\ \A i \in 1..Len(timing_sequence_list) :
           LET v == value(i)
           IN  \A p \in (ExpectedOffset(i - 1) + 1)..ExpectedOffset(i) : wave[p] = v

Bitmask(i) == timing_sequence_list[i][1]

StoredModulus == IF bit_num <= 8 THEN 256 ELSE 65536

StoredBitmask(i) == Bitmask(i) % StoredModulus

RECURSIVE DropLowBits(_, _)
DropLowBits(value, count) ==
    IF count = 0 \/ value = 0 THEN value ELSE DropLowBits(value \div 2, count - 1)

\* (mask >> (bit_num * lane)) & 0xFF
LaneByte(i, lane) == DropLowBits(Bitmask(i), bit_num * lane) % 256

RECURSIVE TwoTo(_)
TwoTo(n) == IF n = 0 THEN 1 ELSE 2 * TwoTo(n - 1)

\* bits [lane * bit_num, (lane + 1) * bit_num) of the bitmask
LaneBits(i, lane) == DropLowBits(Bitmask(i), bit_num * lane) % TwoTo(bit_num)

WellFormed ==
    /\ timing_sequence_list # << >>
    /\ sample_rate[1] > 0
    /\ \A i \in 1..Len(timing_sequence_list) : timing_sequence_list[i][2][1] > 0

Malformed == ~WellFormed

DocstringExample == << <<2, <<3, 1>>>>, <<1, <<2, 1>>>>, <<2, <<4, 1>>>> >>

ScriptExample == << <<65280, <<1, 1>>>>, <<255, <<1, 1>>>> >>

RemoveAt(list, i) == SubSeq(list, 1, i - 1) \o SubSeq(list, i + 1, Len(list))

\* The wave of A followed by the wave of B, lane by lane when there are lanes.
Followed(a, b) ==
    IF n_channel = 1 THEN a \o b
    ELSE [c \in 1..Len(a) |-> a[c] \o b[c]]

IsEmptyWave(wave) ==
    IF n_channel = 1 THEN wave = << >>
    ELSE \A c \in 1..Len(wave) : wave[c] = << >>

HasSamples(wave) ==
    IF n_channel = 1 THEN Len(wave) > 0
    ELSE Len(wave) > 0 /\ Len(wave[1]) > 0

-----------------------------------------------------------------------------
(* C1: with n_channel == 1 the call on a non-empty list returns (whenever    *)
(* rate and durations are positive) a flat sequence whose length is the sum  *)
(* over the runs of round(duration_i * sample_rate), each run rounded on its *)
(* own, halves to even.                                                      *)
C1_FlatLengthIsSumOfRoundedCounts ==
    (Finished /\ n_channel = 1 /\ timing_sequence_list # << >>) =>
        /\ WellFormed => pc = "returned"
        /\ pc = "returned" => Len(timing_wave) = ExpectedLength

\* A returned flat wave whose length differs from the rounded cumulative duration.
C1_Witness ==
    /\ pc = "returned"
    /\ n_channel = 1
    /\ WellFormed
    /\ Len(timing_wave) > 0
    /\ LET n == Len(timing_sequence_list)
           total == CumulativeDuration(timing_sequence_list, n)
       IN  Len(timing_wave) #
               NearestEven(<<total[1] * sample_rate[1], total[2] * sample_rate[2]>>)

C3_LanesCarryBitNumBits ==
    (pc = "returned" /\ n_channel > 1) =>
        /\ Len(timing_wave) = n_channel
        /\ \A c \in 1..n_channel :
               LET value(i) == LaneBits(i, c - 1)
               IN  SegmentsAre(timing_wave[c], value)
        /\ (timing_sequence_list = ScriptExample /\ sample_rate = <<1, 1>>
                /\ bit_num = 8 /\ n_channel = 2)
            => timing_wave = << <<0, 255>>, <<255, 0>> >>

(* C4: with n_channel > 1 the result has exactly n_channel rows, all of one  *)
(* length, the length of the flat result of the call with n_channel == 1 on  *)
(* the same runs and rate.                                                   *)
C4_RowsMatchFlatLength ==
    (pc = "returned" /\ n_channel > 1) =>
        LET flat == generate_timing_wave(timing_sequence_list, sample_rate, bit_num, 1)
        IN  /\ Len(timing_wave) = n_channel
            /\ ~flat.raised
            /\ \A c \in 1..Len(timing_wave) : Len(timing_wave[c]) = Len(flat.wave)

C4_Witness ==
    /\ pc = "returned"
    /\ n_channel = 3
    /\ Len(timing_sequence_list) > 1
    /\ Len(timing_wave) = 3
    /\ Len(timing_wave[3]) > Len(timing_sequence_list)

(* C5: for every split of the list into non-empty A and B, the call on A + B *)
(* raises exactly when the call on A or the call on B does, and otherwise    *)
(* returns the wave of A followed by the wave of B (lane by lane).           *)
C5_ConcatenationLaw ==
    Finished =>
        \A k \in 1..(Len(timing_sequence_list) - 1) :
            LET a == generate_timing_wave(SubSeq(timing_sequence_list, 1, k),
                                          sample_rate, bit_num, n_channel)
                b == generate_timing_wave(
                         SubSeq(timing_sequence_list, k + 1, Len(timing_sequence_list)),
                         sample_rate, bit_num, n_channel)
            IN  /\ pc = "raised" <=> (a.raised \/ b.raised)
                /\ pc = "returned" => timing_wave = Followed(a.wave, b.wave)

\* A returned wave of several runs, two of which hold samples, with a count
\* that rounding the cumulative duration would not give.
C5_Witness ==
    /\ pc = "returned"
    /\ Len(timing_sequence_list) = MaxRuns
    /\ HasSamples(timing_wave)
    /\ ExpectedCount(1) > 0
    /\ ExpectedCount(MaxRuns) > 0
    /\ sample_rate[2] > 1

(* C6: the call raises, and returns nothing, whenever the list is empty, the *)
(* sample rate is zero or negative, or some duration is zero or negative.    *)
C6_MalformedInputRaises ==
    (Finished /\ Malformed) => pc = "raised"

(* C7: a run whose duration * sample_rate rounds to 0 (halves to even, so a  *)
(* product of exactly 1/2 too) adds no sample and no error: the call behaves *)
(* as the call on the list without that run, and returns an empty wave when  *)
(* that run is the only one.                                                 *)
C7_ZeroCountRunDropped ==
    Finished =>
        \A i \in 1..Len(timing_sequence_list) :
            ExpectedCount(i) = 0 =>
                LET rest == RemoveAt(timing_sequence_list, i)
                    r == generate_timing_wave(rest, sample_rate, bit_num, n_channel)
                IN  IF rest = << >>
                    THEN pc = "returned" /\ IsEmptyWave(timing_wave)
                    ELSE /\ pc = "raised" <=> r.raised
                         /\ pc = "returned" => timing_wave = r.wave

\* A returned wave with samples, one of whose runs has a product of exactly 1/2.
C7_Witness ==
    /\ pc = "returned"
    /\ HasSamples(timing_wave)
    /\ \E i \in 1..Len(timing_sequence_list) :
           /\ 2 * Product(i)[1] = Product(i)[2]
           /\ i < Len(timing_sequence_list)
           /\ ExpectedCount(i + 1) > 0

(* C9: every element of a returned wave is stored in 8 bits when             *)
(* bit_num <= 8 and in 16 bits when bit_num > 8; with n_channel == 1 a       *)
(* bitmask too wide for that is not rejected (the call returns whenever no   *)
(* count is negative) and each sample is the bitmask modulo 2^width.         *)
C9_StorageWidthAndTruncation ==
    /\ pc = "returned" =>
           /\ dtype = (IF bit_num <= 8 THEN 8 ELSE 16)
           /\ IF n_channel = 1
              THEN /\ \A p \in 1..Len(timing_wave) : timing_wave[p] \in 0..(StoredModulus - 1)
                   /\ SegmentsAre(timing_wave, StoredBitmask)
              ELSE \A c \in 1..Len(timing_wave) : \A p \in 1..Len(timing_wave[c]) :
                       timing_wave[c][p] \in 0..(StoredModulus - 1)
    /\ (Finished /\ n_channel = 1 /\ timing_sequence_list # << >>
            /\ \A i \in 1..Len(timing_sequence_list) : ExpectedCount(i) >= 0)
        => pc = "returned"

\* A flat 16-bit wave holding the samples of a bitmask wider than 16 bits.
C9_Witness ==
    /\ pc = "returned"
    /\ n_channel = 1
    /\ bit_num > 8
    /\ \E i \in 1..Len(timing_sequence_list) :
           /\ Bitmask(i) >= 65536
           /\ ExpectedCount(i) > 0
           /\ timing_wave[ExpectedOffset(i)] = Bitmask(i) - 65536

-----------------------------------------------------------------------------
(* The script's hardware calls *)

RECURSIVE Repeated(_, _)
Repeated(seq, n) == IF n = 0 THEN << >> ELSE seq \o Repeated(seq, n - 1)

ExpectedCalls(n) ==
    << <<"timing_task", "create">>, <<"timing_task", "write_wave">>,
       <<"sample_task", "create">>, <<"timing_task", "start">> >>
    \o Repeated(<< <<"sample_task", "start">>, <<"sample_task", "read">>,
                   <<"sample_task", "stop">>, <<"sample_task", "number_of_channels">> >>, n)
    \o << <<"sample_task", "close">>, <<"timing_task", "write_zero">>,
          <<"timing_task", "stop">>, <<"timing_task", "close">> >>

IsPrefix(s, t) == Len(s) <= Len(t) /\ SubSeq(t, 1, Len(s)) = s

Occurrences(call) == Cardinality({j \in 1..Len(calls) : calls[j] = call})

(* C10: the hardware calls of the script follow one fixed order.  The wave   *)
(* is written to the timing task before it is started; it is started before *)
(* the first sample start and not stopped while the sample task runs; the    *)
(* sample task is never started twice without a stop in between; nothing is  *)
(* called on a task after its close; a completed run made repeat_time        *)
(* start/read/stop rounds, then closed the sample task, wrote 0 on every     *)
(* timing channel, stopped and closed the timing task.                       *)
C10_HardwareCallOrder ==
    /\ IsPrefix(calls, ExpectedCalls(repeat_time))
    /\ \A j \in 1..Len(calls) :
           /\ calls[j] = <<"timing_task", "start">> =>
                  \E i \in 1..(j - 1) : calls[i] = <<"timing_task", "write_wave">>
           /\ calls[j] = <<"sample_task", "start">> =>
                  /\ \E i \in 1..(j - 1) : calls[i] = <<"timing_task", "start">>
                  /\ \A i \in 1..(j - 1) :
                         /\ calls[i] # <<"timing_task", "stop">>
                         /\ calls[i] = <<"sample_task", "start">> =>
                                \E k \in (i + 1)..(j - 1) : calls[k] = <<"sample_task", "stop">>
           /\ calls[j][2] = "close" =>
                  \A k \in (j + 1)..Len(calls) : calls[k][1] # calls[j][1]
    /\ sample_task = "started" => timing_task = "started"
    /\ pc = "done" =>
           /\ calls = ExpectedCalls(repeat_time)
           /\ Occurrences(<<"sample_task", "start">>) = repeat_time
           /\ Occurrences(<<"sample_task", "read">>) = repeat_time
           /\ Occurrences(<<"sample_task", "stop">>) = repeat_time
           /\ written = [c \in 1..Len(timing_channel) |-> 0]
           /\ sample_task = "closed"
           /\ timing_task = "closed"

\* A completed run of several rounds that wrote a wave with samples.
C10_Witness ==
    /\ pc = "done"
    /\ repeat_time >= 2
    /\ Len(timing_wave) = 2
    /\ Len(timing_wave[1]) > 0
    /\ Len(calls) = 8 + 4 * repeat_time

====
